---------------------------- MODULE Spec2Model ----------------------------
(***************************************************************************)
(* Slippi playback status (SlippiPlayback.cpp): the shared playback        *)
(* record, the savestate thread that captures the initial state and the    *)
(* diffs, the asynchronous diff tasks, the seek thread, and the per-frame  *)
(* hook prepareSlippiPlayback that the emulation thread calls.             *)
(*                                                                         *)
(* Every statement of the source that reads or writes shared state is one  *)
(* step of its thread; the threads interleave freely, as the source takes  *)
(* no lock that two threads share.  A condition variable wakes a thread    *)
(* only if that thread is already blocked in wait() when notify_one() is   *)
(* called.                                                                 *)
(***************************************************************************)
EXTENDS Integers, Sequences, FiniteSets, TLC

(***************************************************************************)
(* Program constants                                                       *)
(***************************************************************************)
FRAME_INTERVAL == 900

PLAYBACK_FIRST_SAVE == -122

GAME_FIRST_FRAME == -123

INT_MAX == 2147483647

INT_MIN == -INT_MAX - 1

\* the literal of the backpressure test, numDiffsProcessing > 3
MaxDiffsProcessing == 3

\* u32 jumpInterval = 300
jumpInterval == 300

(***************************************************************************)
(* Bounds of the model                                                     *)
(***************************************************************************)
\* how many half-intervals of frames the recorded game holds
MaxSteps == 3

\* how many seeks and jumps the user asks for in one game
MaxRequests == 1

(***************************************************************************)
(* Frame arithmetic                                                        *)
(***************************************************************************)
\* a + b stored in an s32: two's complement wrap-around, computed without
\* leaving the 32-bit range
AddS32(a, b) ==
    IF b > 0 /\ a > INT_MAX - b THEN (a - INT_MAX) + (b - INT_MAX) - 2
    ELSE IF b < 0 /\ a < INT_MIN - b THEN (a + INT_MAX) + (b + INT_MAX) + 2
    ELSE a + b

SubS32(a, b) == AddS32(a, -b)

\* the C++ % of two ints: the remainder has the sign of the dividend
\* (computed without negating INT_MIN)
CRem(a, b) == IF a >= 0 THEN a % b ELSE -((((-(a + 1)) % b) + 1) % b)

Abs(b) == IF b >= 0 THEN b ELSE -b

\* emod without the correction of a negative remainder
emodTruncating(a, b) == CRem(a, b)

emod(a, b) == LET r == CRem(a, b) IN IF r >= 0 THEN r ELSE r + Abs(b)

\* the wait condition of the savestate thread
NotOnInterval(frame) ==
    CRem(SubS32(frame, PLAYBACK_FIRST_SAVE), FRAME_INTERVAL) # 0

\* the wake-up test of prepareSlippiPlayback
OnIntervalHook(frame) == CRem(AddS32(frame, 122), FRAME_INTERVAL) = 0

\* closestStateFrame of the seek thread
\* line 217 with the plain remainder in place of emod
ClosestStateFrameTruncating(target) ==
    SubS32(target, CRem(SubS32(target, PLAYBACK_FIRST_SAVE), FRAME_INTERVAL))

ClosestStateFrame(target) ==
    SubS32(target, emod(SubS32(target, PLAYBACK_FIRST_SAVE), FRAME_INTERVAL))

Max(a, b) == IF a >= b THEN a ELSE b

(***************************************************************************)
(* The emulation thread plays the game frame by frame.  The model keeps    *)
(* the frames at which something differs: the first frame of the game, the *)
(* first save frame, and from there every half interval, so that every     *)
(* interval boundary and a frame between any two boundaries are visited.   *)
(***************************************************************************)
HostStride == FRAME_INTERVAL \div 2

NextFrame(f) ==
    IF f < PLAYBACK_FIRST_SAVE THEN PLAYBACK_FIRST_SAVE ELSE f + HostStride

\* the last frame of a recording that is seeked in, and of a longer one
\* that is only played
LastFrame == PLAYBACK_FIRST_SAVE + MaxSteps * HostStride

LongLastFrame == LastFrame + 2 * HostStride

\* the frames a user asks for: the first save frame, a frame inside the
\* first interval, one past the end of any recorded game
SeekTargets == {PLAYBACK_FIRST_SAVE, 50, 99999}

VARIABLES
    \* SlippiPlaybackStatus
    shouldJumpBack, shouldJumpForward, inSlippiPlayback, shouldRunThreads,
    isHardFFW, currentPlaybackFrame, targetFrameNum, latestFrame,
    iState, futureDiffs,
    \* file statics
    numDiffsProcessing,
    \* SavestateThread: position and locals
    savePc, fixedFrameNumber,
    \* SeekThread: position and locals
    seekPc, paused, closestStateFrame, isLoadingStateOptimal,
    \* the emulation thread: position in its frame, the frame of the
    \* emulated state, Core's run state
    hostPc, frameIndex, coreState,
    \* the thread that calls resetPlayback: position
    resetPc,
    \* history
    sessions, requests, requestedBehind, iStateWrites, restored, seekTarget,
    stoppedInWait,
    \* g_replayComm: the settings' mode, the current replay's window
    replayMode, startFrame, endFrame,
    \* the last call of a frame-arithmetic function: arguments and results
    call,
    \* SConfig: the CPU clock override that paces the emulation
    m_OCEnable, m_OCFactor

status == <<shouldJumpBack, shouldJumpForward, inSlippiPlayback,
            shouldRunThreads, isHardFFW, currentPlaybackFrame,
            targetFrameNum, latestFrame, iState, futureDiffs>>

saveVars == <<savePc, fixedFrameNumber>>

seekVars == <<seekPc, paused, closestStateFrame, isLoadingStateOptimal>>

hostVars == <<hostPc, frameIndex, coreState>>

replayComm == <<replayMode, startFrame, endFrame>>

history == <<sessions, requests, requestedBehind, iStateWrites, restored,
             seekTarget, stoppedInWait>>

sconfig == <<m_OCEnable, m_OCFactor>>

vars == <<status, numDiffsProcessing, saveVars, seekVars, hostVars,
          resetPc, history, replayComm, call, sconfig>>

\* no frame-arithmetic call made yet
NoCall == [fn |-> "none", a |-> 0, b |-> 1, r |-> 0, rr |-> 0]

\* std::unordered_map futureDiffs, empty
EmptyDiffs == [k \in {} |-> 0]

\* std::vector<u8>, empty
EmptyBuffer == <<>>

(***************************************************************************)
(* Condition variables: notify_one() moves a thread that is blocked in     *)
(* wait() back to the statement after the wait; it does nothing otherwise. *)
(***************************************************************************)
NotifyCondVar(pc) == IF pc = "waiting" THEN "check" ELSE pc

NotifyProcessingDiff(pc) == IF pc = "gateWaiting" THEN "gate" ELSE pc

NotifyTargetFrame(pc) == IF pc = "ffwWaiting" THEN "ffwEnd" ELSE pc

\* diffs submitted and not finished
InFlight == {k \in DOMAIN futureDiffs : futureDiffs[k].phase # "done"}

(***************************************************************************)
(* SlippiPlaybackStatus::SlippiPlaybackStatus                              *)
(***************************************************************************)
Init ==
    /\ shouldJumpBack = FALSE
    /\ shouldJumpForward = FALSE
    /\ inSlippiPlayback = FALSE
    /\ shouldRunThreads = FALSE
    /\ isHardFFW = FALSE
    /\ currentPlaybackFrame = INT_MIN
    /\ targetFrameNum = INT_MAX
    /\ latestFrame = GAME_FIRST_FRAME
    /\ iState = EmptyBuffer
    /\ futureDiffs = EmptyDiffs
    /\ numDiffsProcessing = 0
    /\ savePc = "none"
    /\ fixedFrameNumber = INT_MIN
    /\ seekPc = "none"
    /\ paused = FALSE
    /\ closestStateFrame = INT_MIN
    /\ isLoadingStateOptimal = FALSE
    /\ hostPc = "idle"
    /\ frameIndex = GAME_FIRST_FRAME
    /\ coreState = "run"
    /\ resetPc = "idle"
    /\ sessions = 0
    /\ requests = 0
    /\ requestedBehind = FALSE
    /\ iStateWrites = 0
    /\ restored = "none"
    /\ seekTarget = INT_MAX
    /\ stoppedInWait = FALSE
    /\ replayMode = "normal"
    /\ startFrame = GAME_FIRST_FRAME
    /\ endFrame = INT_MAX
    /\ call = NoCall
    /\ m_OCEnable = FALSE
    /\ m_OCFactor = 1


(***************************************************************************)
(* processDiff: the asynchronous task that std::async launches on a thread *)
(* of its own.  Its beginning (lines 40-41) and its end (lines 47-48) are  *)
(* steps of that thread.                                                   *)
(***************************************************************************)
\* the map after futureDiffs[key] = std::async(processDiff, iState, cState)
SubmitDiff(key, ref, cur) ==
    [k \in DOMAIN futureDiffs \cup {key} |->
        IF k = key THEN [ref |-> ref, cur |-> cur, phase |-> "launched"]
        ELSE futureDiffs[k]]

\* lines 40-41
processDiffBegin(key) ==
    /\ futureDiffs[key].phase = "launched"
    /\ futureDiffs' = [futureDiffs EXCEPT ![key].phase = "running"]
    /\ numDiffsProcessing' = numDiffsProcessing + 1
    /\ hostPc' = NotifyProcessingDiff(hostPc)
    /\ UNCHANGED <<shouldJumpBack, shouldJumpForward, inSlippiPlayback,
                   shouldRunThreads, isHardFFW, currentPlaybackFrame,
                   targetFrameNum, latestFrame, iState, saveVars, seekVars,
                   frameIndex, coreState, resetPc, history>>
    /\ UNCHANGED <<replayComm, call, sconfig>>

\* lines 42-49
processDiffEnd(key) ==
    /\ futureDiffs[key].phase = "running"
    /\ futureDiffs' = [futureDiffs EXCEPT ![key].phase = "done"]
    /\ numDiffsProcessing' = numDiffsProcessing - 1
    /\ hostPc' = NotifyProcessingDiff(hostPc)
    /\ UNCHANGED <<shouldJumpBack, shouldJumpForward, inSlippiPlayback,
                   shouldRunThreads, isHardFFW, currentPlaybackFrame,
                   targetFrameNum, latestFrame, iState, saveVars, seekVars,
                   frameIndex, coreState, resetPc, history>>
    /\ UNCHANGED <<replayComm, call, sconfig>>

DiffTask ==
    \E key \in DOMAIN futureDiffs :
        processDiffBegin(key) \/ processDiffEnd(key)

(***************************************************************************)
(* The emulation thread.  One frame of the game: the emulated state moves  *)
(* to the next frame, currentPlaybackFrame follows it upwards, then        *)
(* prepareSlippiPlayback(frameIndex) runs, beginning with the test of its  *)
(* backpressure loop.  The thread steps only while Core runs and only      *)
(* through frames the recording holds.                                     *)
(***************************************************************************)
\* prepareSlippiPlayback, lines 76-80: the test of the backpressure loop
BlockOnDiffs == shouldRunThreads /\ numDiffsProcessing > MaxDiffsProcessing

HostFrame ==
    /\ hostPc = "idle"
    /\ coreState = "run"
    /\ sessions > 0
    /\ frameIndex < latestFrame
    /\ frameIndex' = NextFrame(frameIndex)
    /\ currentPlaybackFrame' = Max(currentPlaybackFrame, frameIndex')
    /\ hostPc' = IF BlockOnDiffs THEN "gateEnter" ELSE "hook"
    /\ UNCHANGED <<shouldJumpBack, shouldJumpForward, inSlippiPlayback,
                   shouldRunThreads, isHardFFW, targetFrameNum, latestFrame,
                   iState, futureDiffs, numDiffsProcessing, saveVars,
                   seekVars, coreState, resetPc, history>>
    /\ UNCHANGED <<replayComm, call, sconfig>>

\* the recording has been read: its last frame is known
HostLatest(last) ==
    /\ sessions > 0
    /\ latestFrame < last
    /\ latestFrame' = last
    /\ UNCHANGED <<shouldJumpBack, shouldJumpForward, inSlippiPlayback,
                   shouldRunThreads, isHardFFW, currentPlaybackFrame,
                   targetFrameNum, iState, futureDiffs, numDiffsProcessing,
                   saveVars, seekVars, hostVars, resetPc, history>>
    /\ UNCHANGED <<replayComm, call, sconfig>>

\* the test again, after a wake-up
HostGate ==
    /\ hostPc = "gate"
    /\ hostPc' = IF BlockOnDiffs THEN "gateEnter" ELSE "hook"
    /\ UNCHANGED <<status, numDiffsProcessing, saveVars, seekVars,
                   frameIndex, coreState, resetPc, history>>
    /\ UNCHANGED <<replayComm, call, sconfig>>

\* cv_processingDiff.wait(processingLock)
HostGateWait ==
    /\ hostPc = "gateEnter"
    /\ hostPc' = "gateWaiting"
    /\ UNCHANGED <<status, numDiffsProcessing, saveVars, seekVars,
                   frameIndex, coreState, resetPc, history>>
    /\ UNCHANGED <<replayComm, call, sconfig>>

\* prepareSlippiPlayback, lines 82-103
TargetReached == inSlippiPlayback /\ frameIndex >= targetFrameNum

HostHook ==
    /\ hostPc = "hook"
    /\ savePc' = IF shouldRunThreads /\ OnIntervalHook(currentPlaybackFrame)
                 THEN NotifyCondVar(savePc) ELSE savePc
    /\ IF TargetReached
       THEN /\ currentPlaybackFrame' =
                  IF targetFrameNum < currentPlaybackFrame
                  THEN targetFrameNum ELSE currentPlaybackFrame
            /\ seekPc' = NotifyTargetFrame(seekPc)
       ELSE UNCHANGED <<currentPlaybackFrame, seekPc>>
    /\ hostPc' = "idle"
    /\ UNCHANGED <<shouldJumpBack, shouldJumpForward, inSlippiPlayback,
                   shouldRunThreads, isHardFFW, targetFrameNum, latestFrame,
                   iState, futureDiffs, numDiffsProcessing, fixedFrameNumber,
                   paused, closestStateFrame, isLoadingStateOptimal,
                   frameIndex, coreState, resetPc, history>>
    /\ UNCHANGED <<replayComm, call, sconfig>>

(***************************************************************************)
(* SlippiPlaybackStatus::startThreads, called when a game starts: the game *)
(* is at its first frame and Core runs.  The model follows one game.       *)
(***************************************************************************)
startThreads ==
    /\ shouldRunThreads' = TRUE
    /\ savePc' = "check"
    /\ seekPc' = "poll"

HostGameStart ==
    /\ sessions = 0
    /\ ~shouldRunThreads
    /\ resetPc = "idle"
    /\ hostPc = "idle"
    /\ startThreads
    /\ frameIndex' = GAME_FIRST_FRAME
    /\ currentPlaybackFrame' = GAME_FIRST_FRAME
    /\ latestFrame' = GAME_FIRST_FRAME
    /\ coreState' = "run"
    /\ sessions' = sessions + 1
    /\ requests' = 0
    /\ requestedBehind' = FALSE
    /\ iStateWrites' = 0
    /\ UNCHANGED <<shouldJumpBack, shouldJumpForward, inSlippiPlayback,
                   isHardFFW, targetFrameNum, iState, futureDiffs,
                   numDiffsProcessing, fixedFrameNumber, paused,
                   closestStateFrame, isLoadingStateOptimal, hostPc,
                   resetPc, restored, seekTarget, stoppedInWait>>
    /\ UNCHANGED <<replayComm, call, sconfig>>

(***************************************************************************)
(* SlippiPlaybackStatus::resetPlayback                                     *)
(***************************************************************************)
\* lines 108-118
ResetStop ==
    /\ resetPc = "idle"
    /\ sessions > 0
    /\ IF shouldRunThreads
       THEN /\ shouldRunThreads' = FALSE
            /\ savePc' = NotifyCondVar(savePc)
            /\ resetPc' = "clear"
            /\ stoppedInWait' = (seekPc = "ffwWaiting")
       ELSE /\ resetPc' = "flags"
            /\ UNCHANGED <<shouldRunThreads, savePc, stoppedInWait>>
    /\ UNCHANGED <<shouldJumpBack, shouldJumpForward, inSlippiPlayback,
                   isHardFFW, currentPlaybackFrame, targetFrameNum,
                   latestFrame, iState, futureDiffs, numDiffsProcessing,
                   fixedFrameNumber, seekVars, hostVars, sessions,
                   requests, requestedBehind, iStateWrites, restored,
                   seekTarget>>
    /\ UNCHANGED <<replayComm, call, sconfig>>

\* lines 119-120: destroying the future of a running task waits for it
ResetClear ==
    /\ resetPc = "clear"
    /\ InFlight = {}
    /\ futureDiffs' = EmptyDiffs
    /\ resetPc' = "flags"
    /\ UNCHANGED <<shouldJumpBack, shouldJumpForward, inSlippiPlayback,
                   shouldRunThreads, isHardFFW, currentPlaybackFrame,
                   targetFrameNum, latestFrame, iState, numDiffsProcessing,
                   saveVars, seekVars, hostVars, history>>
    /\ UNCHANGED <<replayComm, call, sconfig>>

\* lines 123-128
ResetFlags ==
    /\ resetPc = "flags"
    /\ shouldJumpBack' = FALSE
    /\ shouldJumpForward' = FALSE
    /\ isHardFFW' = FALSE
    /\ targetFrameNum' = INT_MAX
    /\ inSlippiPlayback' = FALSE
    /\ resetPc' = "idle"
    /\ UNCHANGED <<shouldRunThreads, currentPlaybackFrame, latestFrame,
                   iState, futureDiffs, numDiffsProcessing, saveVars,
                   seekVars, hostVars, history>>
    /\ UNCHANGED <<replayComm, call, sconfig>>

(***************************************************************************)
(* SlippiPlaybackStatus::SavestateThread                                   *)
(***************************************************************************)
\* lines 145-149: the tests of the two loops
SaveCheck ==
    /\ savePc = "check"
    /\ savePc' = IF ~shouldRunThreads THEN "done"
                 ELSE IF NotOnInterval(currentPlaybackFrame)
                      THEN "enterWait" ELSE "read"
    /\ UNCHANGED <<status, numDiffsProcessing, fixedFrameNumber, seekVars,
                   hostVars, resetPc, history>>
    /\ UNCHANGED <<replayComm, call, sconfig>>

\* line 150: condVar.wait(intervalLock)
SaveWait ==
    /\ savePc = "enterWait"
    /\ savePc' = "waiting"
    /\ UNCHANGED <<status, numDiffsProcessing, fixedFrameNumber, seekVars,
                   hostVars, resetPc, history>>
    /\ UNCHANGED <<replayComm, call, sconfig>>

\* lines 152-157
SaveRead ==
    /\ savePc = "read"
    /\ IF ~shouldRunThreads
       THEN savePc' = "done" /\ UNCHANGED fixedFrameNumber
       ELSE /\ fixedFrameNumber' = currentPlaybackFrame
            /\ savePc' = IF currentPlaybackFrame = INT_MAX
                         THEN "check" ELSE "act"
    /\ UNCHANGED <<status, numDiffsProcessing, seekVars, hostVars, resetPc,
                   history>>
    /\ UNCHANGED <<replayComm, call, sconfig>>

\* line 162 without its test of inSlippiPlayback
ShouldCaptureInitialUngated(frame) == frame = PLAYBACK_FIRST_SAVE

\* line 162: the test that guards processInitialState
ShouldCaptureInitial(frame) ==
    ~inSlippiPlayback /\ frame = PLAYBACK_FIRST_SAVE

\* line 167: the test that guards the diff
ShouldCaptureDiff(frame) ==
    frame \notin DOMAIN futureDiffs /\ frame # PLAYBACK_FIRST_SAVE

\* lines 159-174
SaveAct ==
    /\ savePc = "act"
    /\ IF ShouldCaptureInitial(fixedFrameNumber)
       THEN \* processInitialState(iState)
            /\ iState' = <<frameIndex>>
            /\ inSlippiPlayback' = TRUE
            /\ iStateWrites' = iStateWrites + 1
            /\ UNCHANGED futureDiffs
       ELSE IF ShouldCaptureDiff(fixedFrameNumber)
       THEN \* State::SaveToBuffer(cState); std::async(processDiff, ...)
            /\ futureDiffs' =
                  SubmitDiff(fixedFrameNumber, iState, <<frameIndex>>)
            /\ UNCHANGED <<iState, inSlippiPlayback, iStateWrites>>
       ELSE UNCHANGED <<iState, inSlippiPlayback, iStateWrites,
                        futureDiffs>>
    /\ savePc' = "check"
    /\ UNCHANGED <<numDiffsProcessing, hostPc, shouldJumpBack,
                   shouldJumpForward, shouldRunThreads,
                   isHardFFW, currentPlaybackFrame, targetFrameNum,
                   latestFrame, fixedFrameNumber, seekVars, frameIndex,
                   coreState, resetPc, sessions,
                   stoppedInWait, requests, requestedBehind,
                   restored, seekTarget>>
    /\ UNCHANGED <<replayComm, call, sconfig>>

(***************************************************************************)
(* Seek requests of the user interface: an absolute seek writes            *)
(* targetFrameNum, a jump sets its flag and is ignored outside playback.   *)
(***************************************************************************)
RequestSeek(frame, max) ==
    /\ sessions > 0
    /\ requests < max
    /\ requests' = requests + 1
    /\ requestedBehind' = (frame < currentPlaybackFrame)
    /\ targetFrameNum' = frame
    /\ UNCHANGED <<shouldJumpBack, shouldJumpForward, inSlippiPlayback,
                   shouldRunThreads, isHardFFW, currentPlaybackFrame,
                   latestFrame, iState, futureDiffs, numDiffsProcessing,
                   saveVars, seekVars, hostVars, resetPc, sessions,
                   stoppedInWait,
                   iStateWrites, restored, seekTarget>>
    /\ UNCHANGED <<replayComm, call, sconfig>>

RequestJumpBack(max) ==
    /\ inSlippiPlayback
    /\ requests < max
    /\ requests' = requests + 1
    /\ requestedBehind' = TRUE
    /\ shouldJumpBack' = TRUE
    /\ UNCHANGED <<shouldJumpForward, inSlippiPlayback, shouldRunThreads,
                   isHardFFW, currentPlaybackFrame, targetFrameNum,
                   latestFrame, iState, futureDiffs, numDiffsProcessing,
                   saveVars, seekVars, hostVars, resetPc, sessions,
                   stoppedInWait,
                   iStateWrites, restored, seekTarget>>
    /\ UNCHANGED <<replayComm, call, sconfig>>

RequestJumpForward(max) ==
    /\ inSlippiPlayback
    /\ requests < max
    /\ requests' = requests + 1
    /\ requestedBehind' = FALSE
    /\ shouldJumpForward' = TRUE
    /\ UNCHANGED <<shouldJumpBack, inSlippiPlayback, shouldRunThreads,
                   isHardFFW, currentPlaybackFrame, targetFrameNum,
                   latestFrame, iState, futureDiffs, numDiffsProcessing,
                   saveVars, seekVars, hostVars, resetPc, sessions,
                   stoppedInWait,
                   iStateWrites, restored, seekTarget>>
    /\ UNCHANGED <<replayComm, call, sconfig>>

Request(max) ==
    \/ \E frame \in SeekTargets : RequestSeek(frame, max)
    \/ RequestJumpBack(max)
    \/ RequestJumpForward(max)

(***************************************************************************)
(* SlippiPlaybackStatus::SeekThread                                        *)
(***************************************************************************)
\* line 189
shouldSeek ==
    inSlippiPlayback /\
    (shouldJumpBack \/ shouldJumpForward \/ targetFrameNum # INT_MAX)

\* lines 187-191 and 266: the loop polls until there is a seek or the
\* threads are stopped
SeekPoll ==
    /\ seekPc = "poll"
    /\ ~shouldRunThreads \/ shouldSeek
    /\ seekPc' = IF ~shouldRunThreads THEN "done" ELSE "begin"
    /\ UNCHANGED <<status, numDiffsProcessing, saveVars, paused,
                   closestStateFrame, isLoadingStateOptimal, hostVars,
                   resetPc, history>>
    /\ UNCHANGED <<replayComm, call, sconfig>>

\* lines 202-215: the target after the jumps and the two clamps
ResolveTarget ==
    LET forward == IF shouldJumpForward
                   THEN AddS32(currentPlaybackFrame, jumpInterval)
                   ELSE targetFrameNum
        back    == IF shouldJumpBack
                   THEN SubS32(currentPlaybackFrame, jumpInterval)
                   ELSE forward
        low     == IF back < PLAYBACK_FIRST_SAVE
                   THEN PLAYBACK_FIRST_SAVE ELSE back
    IN  IF low > latestFrame THEN latestFrame ELSE low

\* lines 219-220 with the test dropped: every seek loads a state
LoadingStateOptimalAlways(target, closest) == TRUE

\* lines 219-220
LoadingStateOptimal(target, closest) ==
    target < currentPlaybackFrame \/ closest > currentPlaybackFrame

\* lines 272-283, on the targetFrameNum the seek thread finds at line 195
clearWatchSettingsStartEnd ==
    LET windowed == startFrame # GAME_FIRST_FRAME \/ endFrame # INT_MAX
    IN  /\ startFrame' = IF windowed /\ targetFrameNum < startFrame
                         THEN targetFrameNum ELSE startFrame
        /\ endFrame' = IF windowed /\ targetFrameNum > endFrame
                       THEN INT_MAX ELSE endFrame

\* lines 193-220.  Core::SetState(CORE_PAUSE) returns once the emulation
\* thread has left its frame.
SeekBegin ==
    /\ seekPc = "begin"
    /\ hostPc = "idle"
    /\ IF replayMode = "queue"
       THEN clearWatchSettingsStartEnd
       ELSE UNCHANGED <<startFrame, endFrame>>
    /\ paused' = (coreState = "pause")
    /\ coreState' = "pause"
    /\ targetFrameNum' = ResolveTarget
    /\ closestStateFrame' = ClosestStateFrame(targetFrameNum')
    /\ isLoadingStateOptimal' =
           LoadingStateOptimal(targetFrameNum', closestStateFrame')
    /\ seekTarget' = targetFrameNum'
    /\ seekPc' = "restore"
    /\ UNCHANGED <<shouldJumpBack, shouldJumpForward, inSlippiPlayback,
                   shouldRunThreads, isHardFFW, currentPlaybackFrame,
                   latestFrame, iState, futureDiffs, numDiffsProcessing,
                   saveVars, hostPc, frameIndex, resetPc, sessions,
                   stoppedInWait,
                   requests, requestedBehind, iStateWrites, restored>>
    /\ UNCHANGED <<replayMode, call, sconfig>>

\* State::LoadFromBuffer: the emulated state becomes the one the buffer
\* holds; an empty buffer holds none
LoadFromBuffer(buffer) == IF buffer = EmptyBuffer THEN frameIndex ELSE buffer[1]

\* decoder.Decode(iState, diff): the state the diff was taken of, if the
\* diff was encoded against this iState
Decode(diff) == IF diff.ref = iState THEN diff.cur ELSE EmptyBuffer

\* lines 224-239 without the test of isLoadingStateOptimal at line 222
RestoreChoiceUnconditional ==
    IF closestStateFrame <= PLAYBACK_FIRST_SAVE THEN "iState"
    ELSE IF closestStateFrame \in DOMAIN futureDiffs THEN "diff"
    ELSE "none"

\* what lines 222-240 load: "iState", "diff" or "none"
RestoreChoice ==
    IF ~isLoadingStateOptimal THEN "none"
    ELSE IF closestStateFrame <= PLAYBACK_FIRST_SAVE THEN "iState"
    ELSE IF closestStateFrame \in DOMAIN futureDiffs THEN "diff"
    ELSE "none"

\* lines 222-240; futureDiffs[closestStateFrame].get() waits for the task
SeekRestore ==
    /\ seekPc = "restore"
    /\ RestoreChoice = "diff" => futureDiffs[closestStateFrame].phase = "done"
    /\ frameIndex' =
           CASE RestoreChoice = "iState" -> LoadFromBuffer(iState)
             [] RestoreChoice = "diff" ->
                    LoadFromBuffer(Decode(futureDiffs[closestStateFrame]))
             [] OTHER -> frameIndex
    /\ restored' = RestoreChoice
    /\ seekPc' = "ffwCheck"
    /\ UNCHANGED <<status, numDiffsProcessing, saveVars, paused,
                   closestStateFrame, isLoadingStateOptimal, hostPc,
                   coreState, resetPc, sessions,
                   stoppedInWait, requests, requestedBehind,
                   iStateWrites, seekTarget>>
    /\ UNCHANGED <<replayComm, call, sconfig>>

\* line 243
NeedsFastForward ==
    targetFrameNum # closestStateFrame /\ targetFrameNum # latestFrame

\* lines 243-249
SeekFFWCheck ==
    /\ seekPc = "ffwCheck"
    /\ IF NeedsFastForward
       THEN /\ isHardFFW' = TRUE
            /\ m_OCEnable' = TRUE
            /\ m_OCFactor' = 4
            /\ coreState' = "run"
            /\ seekPc' = "ffwEnter"
       ELSE /\ seekPc' = "finish"
            /\ UNCHANGED <<isHardFFW, coreState, sconfig>>
    /\ UNCHANGED <<shouldJumpBack, shouldJumpForward, inSlippiPlayback,
                   shouldRunThreads, currentPlaybackFrame, targetFrameNum,
                   latestFrame, iState, futureDiffs, numDiffsProcessing,
                   saveVars, paused, closestStateFrame,
                   isLoadingStateOptimal, hostPc, frameIndex, resetPc,
                   history>>
    /\ UNCHANGED <<replayComm, call>>

\* line 250: cv_waitingForTargetFrame.wait(seekLock)
SeekFFWWait ==
    /\ seekPc = "ffwEnter"
    /\ seekPc' = "ffwWaiting"
    /\ UNCHANGED <<status, numDiffsProcessing, saveVars, paused,
                   closestStateFrame, isLoadingStateOptimal, hostVars,
                   resetPc, history>>
    /\ UNCHANGED <<replayComm, call, sconfig>>

\* lines 251-255
SeekFFWEnd ==
    /\ seekPc = "ffwEnd"
    /\ hostPc = "idle"
    /\ coreState' = "pause"
    /\ m_OCFactor' = 1
    /\ m_OCEnable' = FALSE
    /\ isHardFFW' = FALSE
    /\ seekPc' = "finish"
    /\ UNCHANGED <<shouldJumpBack, shouldJumpForward, inSlippiPlayback,
                   shouldRunThreads, currentPlaybackFrame, targetFrameNum,
                   latestFrame, iState, futureDiffs, numDiffsProcessing,
                   saveVars, paused, closestStateFrame,
                   isLoadingStateOptimal, hostPc, frameIndex, resetPc,
                   history>>
    /\ UNCHANGED <<replayComm, call>>

\* lines 258-259 without the test of paused
CoreStateAfterSeekAlwaysRun == "run"

\* lines 258-259
CoreStateAfterSeek == IF ~paused THEN "run" ELSE coreState

\* lines 258-263
SeekFinish ==
    /\ seekPc = "finish"
    /\ coreState' = CoreStateAfterSeek
    /\ shouldJumpBack' = FALSE
    /\ shouldJumpForward' = FALSE
    /\ targetFrameNum' = INT_MAX
    /\ seekPc' = "poll"
    /\ restored' = "none"
    /\ seekTarget' = INT_MAX
    /\ UNCHANGED <<inSlippiPlayback, shouldRunThreads, isHardFFW,
                   currentPlaybackFrame, latestFrame, iState, futureDiffs,
                   numDiffsProcessing, saveVars, paused, closestStateFrame,
                   isLoadingStateOptimal, hostPc, frameIndex, resetPc,
                   sessions, stoppedInWait, requests, requestedBehind,
                   iStateWrites>>
    /\ UNCHANGED <<replayComm, call, sconfig>>

(***************************************************************************)
(* The threads                                                             *)
(***************************************************************************)
Host(last) ==
    \/ HostGameStart
    \/ HostLatest(last)
    \/ HostFrame
    \/ HostGate
    \/ HostGateWait
    \/ HostHook

SavestateThread ==
    \/ SaveCheck
    \/ SaveWait
    \/ SaveRead
    \/ SaveAct

resetPlayback ==
    \/ ResetStop
    \/ ResetClear
    \/ ResetFlags

SeekThread ==
    \/ SeekPoll
    \/ SeekBegin
    \/ SeekRestore
    \/ SeekFFWCheck
    \/ SeekFFWWait
    \/ SeekFFWEnd
    \/ SeekFinish

\* one game with seeks
Next ==
    \/ Host(LastFrame)
    \/ SavestateThread
    \/ DiffTask
    \/ resetPlayback
    \/ Request(MaxRequests)
    \/ SeekThread

Spec == Init /\ [][Next]_vars

\* one longer game that is played without a seek
SnapshotNext ==
    \/ Host(LongLastFrame)
    \/ SavestateThread
    \/ DiffTask
    \/ resetPlayback

SnapshotSpec == Init /\ [][SnapshotNext]_vars

\* one game that is not reset, in which one more seek may be asked for
\* while the seek thread is between its clamps (lines 209-215) and the start
\* of its fast-forward (line 245)
RaceRequest ==
    /\ requests < MaxRequests \/ seekPc \in {"restore", "ffwCheck"}
    /\ Request(MaxRequests + 1)

RaceNext ==
    \/ Host(LastFrame)
    \/ SavestateThread
    \/ DiffTask
    \/ RaceRequest
    \/ SeekThread

RaceSpec == Init /\ [][RaceNext]_vars

(***************************************************************************)
(* Seeks on their own: playback of a game is under way, iState is          *)
(* captured, the savestate thread is blocked in its wait and stays there.  *)
(* The user asks for seeks, the seek thread serves them and the emulation  *)
(* thread runs whenever Core lets it.                                      *)
(***************************************************************************)
\* where playback is when the user asks
SeekStartFrames == {PLAYBACK_FIRST_SAVE, 200, 1000}

\* how far the recording goes
SeekLatestFrames == {1228, 5000}

\* g_replayComm: mode of the settings, window of the current replay
ReplayWindows ==
    {[mode |-> "normal", startFrame |-> GAME_FIRST_FRAME, endFrame |-> INT_MAX],
     [mode |-> "queue", startFrame |-> GAME_FIRST_FRAME, endFrame |-> INT_MAX],
     [mode |-> "queue", startFrame |-> 100, endFrame |-> 400]}

\* the diff of the second save frame, finished, or no diff at all
SeekDiffs ==
    {EmptyDiffs,
     [k \in {PLAYBACK_FIRST_SAVE + FRAME_INTERVAL} |->
         [ref |-> <<PLAYBACK_FIRST_SAVE>>,
          cur |-> <<PLAYBACK_FIRST_SAVE + FRAME_INTERVAL>>,
          phase |-> "done"]]}

SeekInit ==
    /\ shouldJumpBack = FALSE
    /\ shouldJumpForward = FALSE
    /\ inSlippiPlayback = TRUE
    /\ shouldRunThreads = TRUE
    /\ isHardFFW = FALSE
    /\ currentPlaybackFrame \in SeekStartFrames
    /\ frameIndex = currentPlaybackFrame
    /\ targetFrameNum = INT_MAX
    /\ latestFrame \in SeekLatestFrames
    /\ iState = <<PLAYBACK_FIRST_SAVE>>
    /\ futureDiffs \in SeekDiffs
    /\ numDiffsProcessing = 0
    /\ savePc = "waiting"
    /\ fixedFrameNumber = PLAYBACK_FIRST_SAVE
    /\ seekPc = "poll"
    /\ paused = FALSE
    /\ closestStateFrame = INT_MIN
    /\ isLoadingStateOptimal = FALSE
    /\ hostPc = "idle"
    /\ coreState \in {"run", "pause"}
    /\ resetPc = "idle"
    /\ sessions = 1
    /\ requests = 0
    /\ requestedBehind = FALSE
    /\ iStateWrites = 1
    /\ restored = "none"
    /\ seekTarget = INT_MAX
    /\ stoppedInWait = FALSE
    /\ \E window \in ReplayWindows :
           /\ replayMode = window.mode
           /\ startFrame = window.startFrame
           /\ endFrame = window.endFrame
    /\ call = NoCall
    /\ m_OCEnable = FALSE
    /\ m_OCFactor = 1

SeekNext ==
    \/ HostFrame
    \/ HostHook
    \/ Request(MaxRequests)
    \/ SeekThread

SeekSpec == SeekInit /\ [][SeekNext]_vars

(***************************************************************************)
(* The frame arithmetic on its own: emod and the closest-state-frame       *)
(* computation of line 217, called on arguments from the whole s32 range.  *)
(***************************************************************************)
EmodArgs ==
    {INT_MIN, INT_MIN + 1, -99999, -1801, -1800, -901, -900, -899, -5, -1,
     0, 1, 5, 899, 900, 901, 1800, 99999, INT_MAX - 1, INT_MAX}

EmodModuli == {1, 2, 7, 300, FRAME_INTERVAL, INT_MAX}

\* frames of a game, before and after the first save frame
FrameArgs ==
    {-99999, -2000, -1023, -1022, -1021, -124, GAME_FIRST_FRAME,
     PLAYBACK_FIRST_SAVE, -121, 0, 50, 200, 500, 777, 778, 779, 1000, 1677,
     1678, 5000, 99999}

CallEmod ==
    /\ \E x \in EmodArgs, y \in EmodModuli :
           call' = [fn |-> "emod", a |-> x, b |-> y, r |-> emod(x, y),
                    rr |-> 0]
    /\ UNCHANGED <<status, numDiffsProcessing, saveVars, seekVars, hostVars,
                   resetPc, history, replayComm, sconfig>>

CallClosestStateFrame ==
    /\ \E frame \in FrameArgs :
           call' = [fn |-> "closest", a |-> frame, b |-> FRAME_INTERVAL,
                    r |-> ClosestStateFrame(frame),
                    rr |-> ClosestStateFrame(ClosestStateFrame(frame))]
    /\ UNCHANGED <<status, numDiffsProcessing, saveVars, seekVars, hostVars,
                   resetPc, history, replayComm, sconfig>>

ArithNext == CallEmod \/ CallClosestStateFrame

ArithSpec == Init /\ [][ArithNext]_vars

(***************************************************************************)
(* Fair scheduling: a thread that can take a step eventually takes one; a  *)
(* resetPlayback that has begun runs to its end.  Nothing obliges the user *)
(* to seek or to reset.                                                    *)
(***************************************************************************)
FairSnapshotSpec ==
    /\ SnapshotSpec
    /\ WF_vars(Host(LongLastFrame))
    /\ WF_vars(SavestateThread)
    /\ WF_vars(DiffTask)
    /\ WF_vars(ResetClear \/ ResetFlags)

FairSpec ==
    /\ Spec
    /\ WF_vars(Host(LastFrame))
    /\ WF_vars(SavestateThread)
    /\ WF_vars(DiffTask)
    /\ WF_vars(ResetClear \/ ResetFlags)
    /\ WF_vars(SeekThread)

(***************************************************************************)
(* Properties                                                              *)
(***************************************************************************)
OnInterval(frame) ==
    emod(frame - PLAYBACK_FIRST_SAVE, FRAME_INTERVAL) = 0

\* C1: the number of diff computations that have been submitted and have
\* not finished never exceeds 3.
C1_InFlightAtMostThree ==
    /\ Cardinality(InFlight) <= MaxDiffsProcessing
    /\ numDiffsProcessing <= MaxDiffsProcessing

\* C4: every key of futureDiffs is a whole number of intervals away from
\* the first save frame.
C4_KeysOnInterval == \A key \in DOMAIN futureDiffs : OnInterval(key)

\* C5: no diff is encoded against an iState that has not been captured.
C5_DiffAgainstCapturedReference ==
    \A key \in DOMAIN futureDiffs : futureDiffs[key].ref # EmptyBuffer

\* C7: once resetPlayback has set shouldRunThreads to false, the savestate
\* thread eventually leaves its loop.
C7_SavestateThreadExits ==
    (sessions > 0 /\ ~shouldRunThreads) ~> (savePc = "done")

\* C8: the emulation thread does not stay blocked on cv_processingDiff once
\* at most 3 diffs are being processed or the threads have been stopped.
C8_HostReleased ==
    (hostPc = "gateWaiting" /\
       (numDiffsProcessing <= MaxDiffsProcessing \/ ~shouldRunThreads))
    ~> (hostPc # "gateWaiting")

\* C6: when resetPlayback is called while the seek thread waits on
\* cv_waitingForTargetFrame, the seek thread is woken and leaves its loop.
C6_SeekThreadExitsOnReset ==
    (seekPc = "ffwWaiting" /\ stoppedInWait) ~> (seekPc = "done")

\* C3: whenever the seek thread sets isHardFFW, targetFrameNum lies between
\* the first save frame and latestFrame.
C3_TargetClampedAtFastForward ==
    [][(~isHardFFW /\ isHardFFW') =>
         (PLAYBACK_FIRST_SAVE <= targetFrameNum' /\
          targetFrameNum' <= latestFrame')]_vars

\* C9: a seek that has to restore, to a closest frame past the first save
\* frame for which futureDiffs has no entry, loads iState.
C9_FallbackToReference ==
    [][(/\ seekPc = "restore"
        /\ seekPc' = "ffwCheck"
        /\ isLoadingStateOptimal
        /\ closestStateFrame > PLAYBACK_FIRST_SAVE
        /\ closestStateFrame \notin DOMAIN futureDiffs)
       => (restored' = "iState" /\ frameIndex' = LoadFromBuffer(iState))]_vars

\* C10: an absolute seek to frame 50, requested while playback is past
\* frame 50, finds the first save frame as closest frame and loads iState.
C10_SeekBehindLoadsReference ==
    (/\ seekPc = "ffwCheck"
     /\ shouldRunThreads
     /\ seekTarget = 50
     /\ requestedBehind
     /\ ~shouldJumpBack
     /\ ~shouldJumpForward)
    => (closestStateFrame = PLAYBACK_FIRST_SAVE /\ restored = "iState")

C14_EmodInRange ==
    call.fn = "emod" =>
        /\ 0 <= call.r
        /\ call.r < call.b
        /\ call.r % call.b = call.a % call.b
        /\ (call.a = -5 /\ call.b = 900) => call.r = 895

\* C14: emod has been called on a negative a whose remainder is not zero.
C14_Witness ==
    call.fn = "emod" /\ call.a = -5 /\ call.b = 900 /\ call.r = 895

\* C15: the closest state frame of a frame is the last interval boundary
\* at or before it, for frames before and after the first save frame, and
\* computing it again from its own result gives the same frame.
C15_ClosestStateFrame ==
    call.fn = "closest" =>
        /\ call.r <= call.a
        /\ call.a < call.r + FRAME_INTERVAL
        /\ (call.r - PLAYBACK_FIRST_SAVE) % FRAME_INTERVAL = 0
        /\ call.rr = call.r

\* C15: the computation has run on a frame before the first save frame
\* that is not itself a boundary.
C15_Witness ==
    /\ call.fn = "closest"
    /\ call.a = -124
    /\ call.r = PLAYBACK_FIRST_SAVE - FRAME_INTERVAL
    /\ call.rr = call.r

\* the seek thread has resolved a jump forward, the only request made so
\* far, asked for at frame 200 of a recording of 5000 frames, and its
\* restore step is over
JumpForwardFrom200 ==
    /\ seekPc = "ffwCheck"
    /\ requests = 1
    /\ shouldJumpForward
    /\ ~shouldJumpBack
    /\ currentPlaybackFrame = 200
    /\ latestFrame = 5000

\* C11 as stated: a jump forward from frame 200 with latestFrame 5000 gives
\* target 500 and closest frame -122, loads iState and fast-forwards.
C11_JumpForwardLoadsReference ==
    JumpForwardFrom200 =>
        /\ seekTarget = 500
        /\ closestStateFrame = PLAYBACK_FIRST_SAVE
        /\ restored = "iState"
        /\ targetFrameNum = seekTarget => NeedsFastForward

\* C11 amended: a jump forward from frame 200 with latestFrame 5000 gives
\* target 500 and closest frame -122, loads nothing, leaves the emulated
\* state at frame 200 and fast-forwards from there.
C11_JumpForwardLoadsNothing ==
    JumpForwardFrom200 =>
        /\ seekTarget = 500
        /\ closestStateFrame = PLAYBACK_FIRST_SAVE
        /\ restored = "none"
        /\ frameIndex = 200
        /\ targetFrameNum = seekTarget => NeedsFastForward

\* C11: the jump forward from frame 200 is in its fast-forward, nothing
\* was loaded.
C11_Witness ==
    /\ seekPc = "ffwWaiting"
    /\ isHardFFW
    /\ requests = 1
    /\ shouldJumpForward
    /\ seekTarget = 500
    /\ targetFrameNum = 500
    /\ latestFrame = 5000
    /\ closestStateFrame = PLAYBACK_FIRST_SAVE
    /\ restored = "none"
    /\ frameIndex = 200

\* C12: a seek to a frame beyond latestFrame is clamped to latestFrame and
\* the seek thread does not start a fast-forward for it; a fast-forward
\* starts only with a target that is neither the closest state frame nor
\* latestFrame.
C12_NoFastForwardBeyondLatest ==
    [][/\ (/\ seekPc = "begin"
           /\ seekPc' = "restore"
           /\ ~shouldJumpBack
           /\ ~shouldJumpForward
           /\ targetFrameNum > latestFrame) => targetFrameNum' = latestFrame
       /\ (~isHardFFW /\ isHardFFW') =>
              /\ targetFrameNum' <= latestFrame'
              /\ targetFrameNum' # closestStateFrame'
              /\ targetFrameNum' # latestFrame']_vars

\* C13: in a game that is not reset, playback eventually begins with iState
\* captured at the first save frame, and a diff keyed one interval later
\* eventually appears in futureDiffs.
C13_PlaybackBeginsAndDiffAppears ==
    (sessions > 0 /\ shouldRunThreads) ~>
        \/ ~shouldRunThreads
        \/ /\ inSlippiPlayback
           /\ iState = <<PLAYBACK_FIRST_SAVE>>
           /\ (PLAYBACK_FIRST_SAVE + FRAME_INTERVAL) \in DOMAIN futureDiffs

\* C16: when resetPlayback returns, the jump flags, isHardFFW and
\* inSlippiPlayback are false, targetFrameNum is INT_MAX, the state buffer
\* iState is cleared and futureDiffs is empty.
C16_ResetClearsEverything ==
    [][(resetPc = "flags" /\ resetPc' = "idle") =>
          /\ ~shouldJumpBack'
          /\ ~shouldJumpForward'
          /\ ~isHardFFW'
          /\ ~inSlippiPlayback'
          /\ targetFrameNum' = INT_MAX
          /\ iState' = EmptyBuffer
          /\ futureDiffs' = EmptyDiffs]_vars

\* C17: in queue mode, once the seek thread has resolved the target of a
\* seek, the replay's window [startFrame, endFrame] contains that target;
\* no step narrows the window.
C17_WindowWidenedToTarget ==
    [][/\ startFrame' <= startFrame
       /\ endFrame' >= endFrame
       /\ (seekPc = "begin" /\ seekPc' = "restore" /\ replayMode = "queue")
             => (startFrame' <= seekTarget' /\ seekTarget' <= endFrame')]_vars

\* C18: a seek request that arrives while the seek thread is servicing an
\* earlier one is still pending when the seek thread finishes that earlier
\* seek: its flag or its target is not wiped by the final clearing.
C18_RequestSurvivesService ==
    [][(seekPc = "finish" /\ seekPc' = "poll" /\ requests = MaxRequests + 1)
          => \/ shouldJumpBack'
             \/ shouldJumpForward'
             \/ targetFrameNum' # INT_MAX]_vars

\* C19: the target the seek thread resolves lies between the first save
\* frame and latestFrame, and the seek thread loads a state (iState or a
\* decoded diff) only if that target is behind currentPlaybackFrame or its
\* closest state frame is ahead of currentPlaybackFrame; otherwise the
\* restoring step leaves the emulated state as it is.
C19_RestoreOnlyWhenOptimal ==
    [][/\ (seekPc = "begin" /\ seekPc' = "restore") =>
              /\ PLAYBACK_FIRST_SAVE <= seekTarget'
              /\ seekTarget' <= latestFrame
       /\ (seekPc = "restore" /\ seekPc' = "ffwCheck") =>
              \/ seekTarget < currentPlaybackFrame
              \/ closestStateFrame > currentPlaybackFrame
              \/ (restored' = "none" /\ frameIndex' = frameIndex)]_vars

\* a seek to a target ahead of the current frame, with no state frame in
\* between, has passed the restoring step without loading anything
C19_Witness ==
    /\ seekPc = "ffwCheck"
    /\ seekTarget > currentPlaybackFrame
    /\ closestStateFrame <= currentPlaybackFrame
    /\ PLAYBACK_FIRST_SAVE < closestStateFrame
    /\ closestStateFrame \in DOMAIN futureDiffs
    /\ restored = "none"
    /\ frameIndex = currentPlaybackFrame

\* C20: the seek thread loads a state only while Core is paused and the
\* emulation thread is outside its frame; when it finishes a seek, Core is
\* paused if it was paused when the seek began and runs otherwise,
\* isHardFFW is false and the clock override is off with factor 1.
C20_PausedAroundSeek ==
    [][/\ (seekPc = "begin" /\ seekPc' = "restore") =>
              paused' = (coreState = "pause")
       /\ (seekPc = "restore" /\ seekPc' = "ffwCheck") =>
              (coreState = "pause" /\ hostPc = "idle")
       /\ (seekPc = "finish" /\ seekPc' = "poll") =>
              /\ coreState' = IF paused THEN "pause" ELSE "run"
              /\ ~isHardFFW'
              /\ ~m_OCEnable'
              /\ m_OCFactor' = 1]_vars

\* a seek to frame 50, asked for while Core was paused, has loaded iState,
\* fast-forwarded and finished, and Core is paused again
C20_Witness ==
    /\ seekPc = "poll"
    /\ requests = 1
    /\ ~shouldJumpBack
    /\ ~shouldJumpForward
    /\ targetFrameNum = INT_MAX
    /\ currentPlaybackFrame = 50
    /\ frameIndex > currentPlaybackFrame
    /\ paused
    /\ coreState = "pause"
    /\ ~isHardFFW
    /\ ~m_OCEnable

=============================================================================
